---- MODULE Spec2Model ----
(***************************************************************************)
(* Model of the embeddings / attention service.                            *)
(*                                                                         *)
(*  - app/services/model_service.py  : ModelService and the two process-   *)
(*    wide caches _TOKENIZER_CACHE and _MODEL_CACHE                        *)
(*  - app/services/model_manager.py  : ModelManager.model_cache            *)
(*  - app/api/endpoints/*.py         : the request handlers                *)
(*  - app/services/reduction_service.py : DimensionalityReducer.reduce     *)
(*  - app/main.py, app/model_service.py : the older /process application   *)
(*                                                                         *)
(* Five specifications share the module: Spec (the API application),       *)
(* SpecReduce (direct calls of DimensionalityReducer.reduce), SpecMain     *)
(* (the older /process application), SpecInfer (direct calls on one        *)
(* ModelService) and SpecLogs (the log file and the /logs handlers).       *)
(***************************************************************************)
EXTENDS Integers, Sequences, FiniteSets, TLC

\* ------------------------------------------------------------------ bounds
MaxReq == 2
MaxInst == 3
MaxSeqLen == 2
MaxComponents == 3
MaxVal == 2
MaxCalls == 3
MaxLines == 4

\* --------------------------------------------------------------- constants
\* Model names a client may send.  "gpt2" is the default of every request model.
Names == {"gpt2", "bert"}

\* reduction_method strings a client may send; "tsne" stands for every string
\* other than "pca" and "umap" (the request models do not validate the field).
Methods == {"pca", "umap", "tsne"}

\* n_components is an unvalidated int of the request.
Components == 0..MaxComponents

\* seq_len: the number of rows of the hidden-state matrix.
SeqLens == 0..MaxSeqLen

\* The stage of reduce at which the numerical library raises, if any.
Faults == {"none", "standardize", "project", "rescale"}

Slots == 1..MaxReq

VARIABLES
    TOKENIZER_CACHE,   \* services/model_service.py _TOKENIZER_CACHE : name -> tokenizer instance
    MODEL_CACHE,       \* services/model_service.py _MODEL_CACHE     : name -> model instance
    model_cache,       \* ModelManager.model_cache                   : name -> ModelService
    reqs,              \* the requests in flight, one record per slot
    running,           \* the slot whose coroutine the event loop is running, 0 when none
    nextInst,          \* identity given to the next object the loader returns
    loads,             \* history: successful loader calls per name and kind
    acquired,          \* history: the first ModelService get_model returned per name
    call,              \* SpecReduce: one call of DimensionalityReducer.reduce
    main_model_cache,  \* main.py model_cache : the set of names it holds
    preq,              \* SpecMain: one /process request
    session,           \* SpecInfer: one ModelService and the calls made on it
    logs               \* SpecLogs: the log file and one GET /logs request

apiVars == <<TOKENIZER_CACHE, MODEL_CACHE, model_cache, reqs, running, nextInst, loads, acquired>>
mainVars == <<main_model_cache, preq>>
vars == <<TOKENIZER_CACHE, MODEL_CACHE, model_cache, reqs, running, nextInst, loads, acquired,
          call, main_model_cache, preq, session, logs>>

\* ===================================================== DimensionalityReducer
\* The outcome of a call: what was returned or raised, and the numerical stages
\* that were run, in order.
Returned(rows, cols, stages, zeros) ==
    [kind |-> "return", exc |-> "", msg |-> "", rows |-> rows, cols |-> cols,
     stages |-> stages, zeros |-> zeros]

Raised(exc, msg, stages) ==
    [kind |-> "raise", exc |-> exc, msg |-> msg, rows |-> 0, cols |-> 0,
     stages |-> stages, zeros |-> FALSE]

\* reduce with the two precondition tests in the opposite order.
reduce_method_first(method, n_components, seq_len, fault) ==
    IF method \notin {"pca", "umap"}
    THEN Raised("ValueError", "Unsupported dimensionality reduction method", <<>>)
    ELSE IF seq_len < n_components
    THEN Raised("ValueError", "Cannot reduce", <<>>)
    ELSE IF fault = "standardize"
    THEN Raised("LibraryError", "standardize", <<"standardize">>)
    ELSE IF fault = "project"
    THEN Raised("LibraryError", "project", <<"standardize", "project">>)
    ELSE IF fault = "rescale"
    THEN Raised("LibraryError", "rescale", <<"standardize", "project", "rescale">>)
    ELSE Returned(seq_len, n_components, <<"standardize", "project", "rescale">>, FALSE)

\* reduce whose final else branch projects with PCA instead of raising.
reduce_default_pca(method, n_components, seq_len, fault) ==
    IF seq_len < n_components
    THEN Raised("ValueError", "Cannot reduce", <<>>)
    ELSE IF fault = "standardize"
    THEN Raised("LibraryError", "standardize", <<"standardize">>)
    ELSE IF fault = "project"
    THEN Raised("LibraryError", "project", <<"standardize", "project">>)
    ELSE IF fault = "rescale"
    THEN Raised("LibraryError", "rescale", <<"standardize", "project", "rescale">>)
    ELSE Returned(seq_len, n_components, <<"standardize", "project", "rescale">>, FALSE)

\* reduce whose row-count test also rejects seq_len = n_components.
reduce_strict(method, n_components, seq_len, fault) ==
    IF seq_len <= n_components
    THEN Raised("ValueError", "Cannot reduce", <<>>)
    ELSE IF fault = "standardize"
    THEN Raised("LibraryError", "standardize", <<"standardize">>)
    ELSE IF method \in {"pca", "umap"}
    THEN IF fault = "project"
         THEN Raised("LibraryError", "project", <<"standardize", "project">>)
         ELSE IF fault = "rescale"
         THEN Raised("LibraryError", "rescale", <<"standardize", "project", "rescale">>)
         ELSE Returned(seq_len, n_components, <<"standardize", "project", "rescale">>, FALSE)
    ELSE Raised("ValueError", "Unsupported dimensionality reduction method", <<"standardize">>)

\* DimensionalityReducer.reduce, self.method = method, self.n_components =
\* n_components, embeddings.shape[0] = seq_len.
reduce(method, n_components, seq_len, fault) ==
    IF seq_len < n_components
    THEN Raised("ValueError", "Cannot reduce", <<>>)
    ELSE IF fault = "standardize"
    THEN Raised("LibraryError", "standardize", <<"standardize">>)
    ELSE IF method \in {"pca", "umap"}
    THEN IF fault = "project"
         THEN Raised("LibraryError", "project", <<"standardize", "project">>)
         ELSE IF fault = "rescale"
         THEN Raised("LibraryError", "rescale", <<"standardize", "project", "rescale">>)
         ELSE Returned(seq_len, n_components, <<"standardize", "project", "rescale">>, FALSE)
    ELSE Raised("ValueError", "Unsupported dimensionality reduction method", <<"standardize">>)

\* app/model_service.py ModelService.dimensionality_reduction: the same
\* pipeline, with the projection and the rescaling inside a try whose handler
\* prints the failure and returns np.zeros((seq_len, n_components)).
dimensionality_reduction(method, n_components, seq_len, fault) ==
    IF seq_len < n_components
    THEN Raised("ValueError", "Cannot reduce", <<>>)
    ELSE IF fault = "standardize"
    THEN Raised("LibraryError", "standardize", <<"standardize">>)
    ELSE IF method \in {"pca", "umap"}
    THEN IF fault = "project"
         THEN Returned(seq_len, n_components, <<"standardize", "project">>, TRUE)
         ELSE IF fault = "rescale"
         THEN Returned(seq_len, n_components, <<"standardize", "project", "rescale">>, TRUE)
         ELSE Returned(seq_len, n_components, <<"standardize", "project", "rescale">>, FALSE)
    ELSE Returned(seq_len, n_components, <<"standardize">>, TRUE)

NoOutcome == [kind |-> "none", exc |-> "", msg |-> "", rows |-> 0, cols |-> 0,
              stages |-> <<>>, zeros |-> FALSE]

\* ------------------------------------------------------- the rescaling
\* The entries a column of the projected matrix can hold.
Vals == (0 - MaxVal)..MaxVal

\* MinMaxScaler(feature_range=(-1, 1))
feature_range == [lo |-> -1, hi |-> 1]

Min(S) == CHOOSE x \in S : \A y \in S : x <= y
Max(S) == CHOOSE x \in S : \A y \in S : y <= x

\* A column handed back as the projection left it.  Entries are fractions
\* num / den with den > 0.
no_rescale(col) == [k \in DOMAIN col |-> [num |-> col[k], den |-> 1]]

\* normalizer.fit_transform(reduced) on one column: with data_range =
\* max - min (1 when the column is constant), scale_ = (hi - lo) / data_range
\* and min_ = lo - min * scale_, an entry x becomes x * scale_ + min_.
min_max_scale(col) ==
    LET S == {col[k] : k \in DOMAIN col}
        data_range == IF Max(S) = Min(S) THEN 1 ELSE Max(S) - Min(S)
    IN [k \in DOMAIN col |->
          [num |-> (col[k] - Min(S)) * (feature_range.hi - feature_range.lo)
                       + feature_range.lo * data_range,
           den |-> data_range]]

\* ------------------------------------------------- SpecReduce: direct calls
\* A reducer is built by get_reducer(method, n_components) and reduce is called
\* on a matrix of seq_len rows; fault is what the numerical library does, and
\* projected is a column of the matrix the projection produces when it runs
\* (every column is rescaled on its own, by the same rule).  fitted is what
\* calls have stored on the reducer object besides method and n_components;
\* reused tells whether reduce has been called on this reducer before.
ReduceInputs ==
    UNION { [phase : {"ready"}, method : Methods, n_components : Components,
             seq_len : {n}, fault : Faults, out : {NoOutcome},
             projected : [1..n -> Vals], values : {<<>>},
             fitted : {<<>>}, reused : {FALSE}] : n \in SeqLens }

InitReduce == call \in ReduceInputs

\* A reduce that keeps the fitted normalizer on the reducer object.
CallReduceKeepingFit ==
    /\ call.phase = "ready"
    /\ LET out == reduce(call.method, call.n_components, call.seq_len, call.fault)
       IN call' = [call EXCEPT !.phase = "returned", !.out = out,
                               !.values = IF out.kind = "return"
                                          THEN min_max_scale(call.projected)
                                          ELSE <<>>,
                               !.fitted = IF "rescale" \in {out.stages[k] : k \in DOMAIN out.stages}
                                          THEN <<"normalizer">> ELSE @]
    /\ UNCHANGED apiVars /\ UNCHANGED mainVars /\ UNCHANGED <<session, logs>>

\* reducer.reduce(embeddings): scaler, reducer and normalizer are local
\* variables; no attribute of self is assigned.
CallReduce ==
    /\ call.phase = "ready"
    /\ LET out == reduce(call.method, call.n_components, call.seq_len, call.fault)
       IN call' = [call EXCEPT !.phase = "returned", !.out = out,
                               !.values = IF out.kind = "return"
                                          THEN min_max_scale(call.projected)
                                          ELSE <<>>]
    /\ UNCHANGED apiVars /\ UNCHANGED mainVars /\ UNCHANGED <<session, logs>>

\* The caller is done with the result of the call.
NextCall ==
    /\ call.phase = "returned"
    /\ call' = [phase |-> "unused", method |-> "pca", n_components |-> 0, seq_len |-> 0,
                fault |-> "none", out |-> NoOutcome, projected |-> <<>>, values |-> <<>>,
                fitted |-> <<>>, reused |-> FALSE]
    /\ UNCHANGED apiVars /\ UNCHANGED mainVars /\ UNCHANGED <<session, logs>>

\* The caller keeps the reducer object for another call.
KeepReducer ==
    /\ call.phase = "returned"
    /\ call' = [call EXCEPT !.phase = "held", !.seq_len = 0, !.fault = "none",
                            !.out = NoOutcome, !.projected = <<>>, !.values = <<>>,
                            !.reused = TRUE]
    /\ UNCHANGED apiVars /\ UNCHANGED mainVars /\ UNCHANGED <<session, logs>>

\* The kept reducer is about to be called on another matrix.
NextMatrix ==
    /\ call.phase = "held"
    /\ \E c \in ReduceInputs :
         call' = [c EXCEPT !.method = call.method, !.n_components = call.n_components,
                           !.fitted = call.fitted, !.reused = TRUE]
    /\ UNCHANGED apiVars /\ UNCHANGED mainVars /\ UNCHANGED <<session, logs>>

\* get_reducer(method, n_components) builds the reducer of the next call.
NewCall ==
    /\ call.phase = "unused"
    /\ call' \in ReduceInputs
    /\ UNCHANGED apiVars /\ UNCHANGED mainVars /\ UNCHANGED <<session, logs>>

\* ============================================================ the API app
\* dict[key] = value
Put(cache, key, value) ==
    [k \in (DOMAIN cache) \cup {key} |-> IF k = key THEN value ELSE cache[k]]

\* A membership test that never finds the key.
never_in_cache(cache, key) == FALSE

\* `model_name in self.model_cache`, `model_name in _TOKENIZER_CACHE` and
\* `model_name in _MODEL_CACHE` (the code tests `not in` and loads on a miss).
in_cache(cache, key) == key \in DOMAIN cache

\* A ModelService object: model_name, tokenizer and model.  0 stands for an
\* attribute __init__ has not set yet.
NoService == [model_name |-> "", tokenizer |-> 0, model |-> 0]

\* The exceptions the external loader (AutoTokenizer / AutoModel
\* .from_pretrained) and the tokenizer / forward pass can raise: ValueError, and
\* "OtherError" for every exception class that is not a ValueError (OSError for
\* an unknown repository, RuntimeError, ...).
LoaderErrors == {"ValueError", "OtherError"}
InferenceErrors == {"ValueError", "OtherError"}

Endpoints == {"embeddings", "attention", "reduce", "tokenize"}

\* Handlers that would hand control back to the event loop in the middle of
\* get_model (for instance by awaiting the load in a thread pool).
AwaitingLoad == {"load_tokenizer", "load_model", "store"}

\* The program points of a handler body at which the coroutine awaits.  The
\* handlers are `async def` and their bodies contain no await expression: once
\* the event loop has entered a body it runs it to its return or raise.
HandlerAwaitPoints == {}

\* text is the number of tokens the tokenizer splits the request text into, 0
\* for the empty text, and -1 as long as the handler has not read the text.
\* attempts counts the calls the request has made of the tokenizer loader, the
\* model loader, get_embeddings_and_attention and reducer.reduce.
IdleRequest ==
    [pc |-> "idle", ep |-> "embeddings", name |-> "gpt2", method |-> "pca",
     n_components |-> 0, text |-> -1, tokens |-> 0, seq_len |-> 0,
     att_rows |-> 0, att_cols |-> 0, hadPrior |-> FALSE, prior |-> NoService,
     invoked |-> {}, service |-> NoService, exc |-> "", origin |-> "",
     reduced |-> NoOutcome, listing |-> {}, status |-> 0, detail |-> "", body |-> {},
     model_name |-> "", events |-> <<>>,
     attempts |-> [tokenizer |-> 0, model |-> 0, forward |-> 0, reduce |-> 0]]

\* ReduceRequest.n_components as the clients of the API send it ("typically 2
\* or 3", default 2).
RequestComponents == {2, 3}

\* The requests a client can send.  The text, and the reduction_method and
\* n_components of a ReduceRequest, are not read before the handler passes them
\* on (to the inference, to get_reducer), and the model draws their values
\* there.  GET /models has no body.
NewRequests ==
    { [IdleRequest EXCEPT !.pc = "pending", !.ep = e, !.name = n]
        : e \in Endpoints, n \in Names }
    \cup
    { [IdleRequest EXCEPT !.pc = "pending", !.ep = "models"] }

InitApi ==
    /\ TOKENIZER_CACHE = <<>>
    /\ MODEL_CACHE = <<>>
    /\ model_cache = <<>>
    /\ reqs = [i \in Slots |-> IdleRequest]
    /\ running = 0
    /\ nextInst = 1
    /\ loads = [n \in Names |-> [tokenizer |-> 0, model |-> 0]]
    /\ acquired = <<>>

\* The event loop gives the processor to slot i when no coroutine is running,
\* and keeps it there until the coroutine awaits or ends.
MayRun(i) == running = 0 \/ running = i

Yield(i, pc) == IF pc \in HandlerAwaitPoints THEN 0 ELSE i

\* A request reaches the application.
Arrive(i) ==
    /\ reqs[i].pc = "idle"
    /\ \E r \in NewRequests : reqs' = [reqs EXCEPT ![i] = r]
    /\ UNCHANGED <<TOKENIZER_CACHE, MODEL_CACHE, model_cache, running, nextInst, loads, acquired>>
    /\ UNCHANGED <<call, main_model_cache, preq, session, logs>>

\* The handler body starts.  embeddings / attention / reduce call
\* ModelManager.get_embeddings / get_attention / get_embeddings_for_reduction,
\* all of which begin with self.get_model(model_name).
EnterHandler(i) ==
    /\ reqs[i].pc = "pending"
    /\ reqs[i].ep \in {"embeddings", "attention", "reduce"}
    /\ MayRun(i)
    /\ reqs' = [reqs EXCEPT ![i].pc = "get_model",
                            ![i].hadPrior = reqs[i].name \in DOMAIN acquired,
                            ![i].prior = IF reqs[i].name \in DOMAIN acquired
                                         THEN acquired[reqs[i].name] ELSE NoService]
    /\ running' = Yield(i, "get_model")
    /\ UNCHANGED <<TOKENIZER_CACHE, MODEL_CACHE, model_cache, nextInst, loads, acquired>>
    /\ UNCHANGED <<call, main_model_cache, preq, session, logs>>

\* tokenize.py calls model_manager.tokenize_only(data.text, data.model_name);
\* ModelManager defines no such attribute, so the attribute lookup raises
\* AttributeError before any model is looked up, whatever the text is.
TokenizeOnly(i) ==
    /\ reqs[i].pc = "pending"
    /\ reqs[i].ep = "tokenize"
    /\ MayRun(i)
    /\ \E k \in SeqLens :
         reqs' = [reqs EXCEPT ![i].pc = "except", ![i].exc = "OtherError",
                              ![i].origin = "tokenize_only", ![i].text = k]
    /\ running' = Yield(i, "except")
    /\ UNCHANGED <<TOKENIZER_CACHE, MODEL_CACHE, model_cache, nextInst, loads, acquired>>
    /\ UNCHANGED <<call, main_model_cache, preq, session, logs>>

\* ModelManager.get_model: the cache test, and the return on a hit.
GetModel(i) ==
    /\ reqs[i].pc = "get_model"
    /\ MayRun(i)
    /\ IF in_cache(model_cache, reqs[i].name)
       THEN /\ reqs' = [reqs EXCEPT ![i].pc = "infer",
                                    ![i].service = model_cache[reqs[i].name]]
            /\ running' = Yield(i, "infer")
       ELSE /\ reqs' = [reqs EXCEPT ![i].pc = "load_tokenizer",
                                    ![i].service = [NoService EXCEPT !.model_name = reqs[i].name]]
            /\ running' = Yield(i, "load_tokenizer")
    /\ UNCHANGED <<TOKENIZER_CACHE, MODEL_CACHE, model_cache, nextInst, loads, acquired>>
    /\ UNCHANGED <<call, main_model_cache, preq, session, logs>>

\* ModelService.__init__, tokenizer half: load and store on a miss, then
\* self.tokenizer = _TOKENIZER_CACHE[model_name].
LoadTokenizer(i) ==
    /\ reqs[i].pc = "load_tokenizer"
    /\ MayRun(i)
    /\ LET n == reqs[i].name IN
       IF in_cache(TOKENIZER_CACHE, n)
       THEN /\ reqs' = [reqs EXCEPT ![i].pc = "load_model",
                                    ![i].service.tokenizer = TOKENIZER_CACHE[n]]
            /\ running' = Yield(i, "load_model")
            /\ UNCHANGED <<TOKENIZER_CACHE, nextInst, loads>>
       ELSE \/ /\ nextInst <= MaxInst
               /\ TOKENIZER_CACHE' = Put(TOKENIZER_CACHE, n, nextInst)
               /\ nextInst' = nextInst + 1
               /\ loads' = [loads EXCEPT ![n].tokenizer = @ + 1]
               /\ reqs' = [reqs EXCEPT ![i].pc = "load_model",
                                       ![i].invoked = @ \cup {"tokenizer"},
                                       ![i].attempts.tokenizer = @ + 1,
                                       ![i].service.tokenizer = nextInst]
               /\ running' = Yield(i, "load_model")
            \/ /\ \E e \in LoaderErrors :
                    reqs' = [reqs EXCEPT ![i].pc = "except",
                                         ![i].invoked = @ \cup {"tokenizer"},
                                         ![i].attempts.tokenizer = @ + 1,
                                         ![i].exc = e, ![i].origin = "load_tokenizer"]
               /\ running' = Yield(i, "except")
               /\ UNCHANGED <<TOKENIZER_CACHE, nextInst, loads>>
    /\ UNCHANGED <<MODEL_CACHE, model_cache, acquired>>
    /\ UNCHANGED <<call, main_model_cache, preq, session, logs>>

\* ModelService.__init__, model half.
LoadModel(i) ==
    /\ reqs[i].pc = "load_model"
    /\ MayRun(i)
    /\ LET n == reqs[i].name IN
       IF in_cache(MODEL_CACHE, n)
       THEN /\ reqs' = [reqs EXCEPT ![i].pc = "store",
                                    ![i].service.model = MODEL_CACHE[n]]
            /\ running' = Yield(i, "store")
            /\ UNCHANGED <<MODEL_CACHE, nextInst, loads>>
       ELSE \/ /\ nextInst <= MaxInst
               /\ MODEL_CACHE' = Put(MODEL_CACHE, n, nextInst)
               /\ nextInst' = nextInst + 1
               /\ loads' = [loads EXCEPT ![n].model = @ + 1]
               /\ reqs' = [reqs EXCEPT ![i].pc = "store",
                                       ![i].invoked = @ \cup {"model"},
                                       ![i].attempts.model = @ + 1,
                                       ![i].service.model = nextInst]
               /\ running' = Yield(i, "store")
            \/ /\ \E e \in LoaderErrors :
                    reqs' = [reqs EXCEPT ![i].pc = "except",
                                         ![i].invoked = @ \cup {"model"},
                                         ![i].attempts.model = @ + 1,
                                         ![i].exc = e, ![i].origin = "load_model"]
               /\ running' = Yield(i, "except")
               /\ UNCHANGED <<MODEL_CACHE, nextInst, loads>>
    /\ UNCHANGED <<TOKENIZER_CACHE, model_cache, acquired>>
    /\ UNCHANGED <<call, main_model_cache, preq, session, logs>>

\* ModelManager.get_model: self.model_cache[model_name] = ModelService(...) and
\* the return of self.model_cache[model_name].
StoreService(i) ==
    /\ reqs[i].pc = "store"
    /\ MayRun(i)
    /\ LET n == reqs[i].name
           cache == Put(model_cache, n, reqs[i].service)
       IN /\ model_cache' = cache
          /\ reqs' = [reqs EXCEPT ![i].pc = "infer", ![i].service = cache[n]]
          /\ acquired' = IF n \in DOMAIN acquired THEN acquired ELSE Put(acquired, n, cache[n])
    /\ running' = Yield(i, "infer")
    /\ UNCHANGED <<TOKENIZER_CACHE, MODEL_CACHE, nextInst, loads>>
    /\ UNCHANGED <<call, main_model_cache, preq, session, logs>>

\* The tokens self.tokenizer(text, return_tensors="pt") adds around the tokens
\* of the text (add_special_tokens is left at its default): none for the GPT-2
\* tokenizer, [CLS] and [SEP] for the BERT tokenizer.
special_tokens(name) == IF name = "gpt2" THEN <<>> ELSE <<"[CLS]", "[SEP]">>

\* self.tokenizer(text, add_special_tokens=..., return_tensors="pt") followed
\* by convert_ids_to_tokens: the token strings of a text of `text` tokens ("w"
\* stands for a token of the text), between the special tokens when asked for.
tokenizer(name, text, add_special_tokens) ==
    LET words == [k \in 1..text |-> "w"]
        special == special_tokens(name)
    IN IF add_special_tokens /\ special # <<>>
       THEN <<special[1]>> \o words \o <<special[2]>>
       ELSE words

\* get_embeddings_and_attention with the token strings taken from the text
\* alone, without the tokens the tokenizer adds.
get_embeddings_and_attention_text_tokens(name, text) ==
    LET input_ids == text + Len(special_tokens(name))
    IN [tokens |-> text, rows |-> input_ids,
        att_rows |-> input_ids, att_cols |-> input_ids,
        token_strings |-> tokenizer(name, text, FALSE)]

\* ModelService.get_embeddings_and_attention(text), as the sizes of what it
\* returns: input_ids is what the tokenizer made of the text; the forward pass
\* returns last_hidden_state of shape [1, len(input_ids), hidden] and, per
\* layer, attentions of shape [1, heads, len(input_ids), len(input_ids)]; the
\* token strings are convert_ids_to_tokens(input_ids[0]).
get_embeddings_and_attention(name, text) ==
    LET input_ids == tokenizer(name, text, TRUE)
    IN [tokens |-> Len(input_ids), rows |-> Len(input_ids),
        att_rows |-> Len(input_ids), att_cols |-> Len(input_ids),
        token_strings |-> input_ids]

\* A handler that calls get_embeddings_and_attention again when it raises.
InferRetrying(i) ==
    /\ reqs[i].pc = "infer"
    /\ MayRun(i)
    /\ \E k \in SeqLens :
         \/ LET pc == IF reqs[i].ep = "reduce" THEN "reduce" ELSE "respond"
                out == get_embeddings_and_attention(reqs[i].name, k)
            IN /\ reqs' = [reqs EXCEPT ![i].pc = pc, ![i].text = k,
                                       ![i].tokens = out.tokens,
                                       ![i].seq_len = out.rows,
                                       ![i].att_rows = out.att_rows,
                                       ![i].att_cols = out.att_cols,
                                       ![i].attempts.forward = @ + 1]
               /\ running' = Yield(i, pc)
         \/ /\ \E e \in InferenceErrors :
                 reqs' = [reqs EXCEPT ![i].pc = "infer", ![i].text = k,
                                      ![i].exc = e, ![i].origin = "infer",
                                      ![i].attempts.forward = @ + 1]
            /\ running' = Yield(i, "infer")
    /\ UNCHANGED <<TOKENIZER_CACHE, MODEL_CACHE, model_cache, nextInst, loads, acquired>>
    /\ UNCHANGED <<call, main_model_cache, preq, session, logs>>

\* model.get_embeddings_and_attention(text) on the obtained ModelService: it
\* returns, or the tokenizer or the forward pass raises.
Infer(i) ==
    /\ reqs[i].pc = "infer"
    /\ MayRun(i)
    /\ \E k \in SeqLens :
         \/ LET pc == IF reqs[i].ep = "reduce" THEN "reduce" ELSE "respond"
                out == get_embeddings_and_attention(reqs[i].name, k)
            IN /\ reqs' = [reqs EXCEPT ![i].pc = pc, ![i].text = k,
                                       ![i].tokens = out.tokens,
                                       ![i].seq_len = out.rows,
                                       ![i].att_rows = out.att_rows,
                                       ![i].att_cols = out.att_cols,
                                       ![i].attempts.forward = @ + 1]
               /\ running' = Yield(i, pc)
         \/ /\ \E e \in InferenceErrors :
                 reqs' = [reqs EXCEPT ![i].pc = "except", ![i].text = k,
                                      ![i].exc = e, ![i].origin = "infer",
                                      ![i].attempts.forward = @ + 1]
            /\ running' = Yield(i, "except")
    /\ UNCHANGED <<TOKENIZER_CACHE, MODEL_CACHE, model_cache, nextInst, loads, acquired>>
    /\ UNCHANGED <<call, main_model_cache, preq, session, logs>>

\* reduce.py, second try block: get_reducer(method, n_components) and
\* reducer.reduce(hidden_states).
Reduce(i) ==
    /\ reqs[i].pc = "reduce"
    /\ MayRun(i)
    /\ \E m \in Methods, c \in RequestComponents, f \in Faults :
         LET out == reduce(m, c, reqs[i].seq_len, f)
             pc == IF out.kind = "return" THEN "respond" ELSE "except"
         IN /\ reqs' = [reqs EXCEPT ![i].pc = pc, ![i].reduced = out,
                                    ![i].method = m, ![i].n_components = c,
                                    ![i].attempts.reduce = @ + 1,
                                    ![i].exc = out.exc,
                                    ![i].origin = IF out.kind = "return" THEN "" ELSE "reduce"]
            /\ running' = Yield(i, pc)
    /\ UNCHANGED <<TOKENIZER_CACHE, MODEL_CACHE, model_cache, nextInst, loads, acquired>>
    /\ UNCHANGED <<call, main_model_cache, preq, session, logs>>

\* Except clauses in which a ValueError of the reducer is answered like a bad
\* request (the 400 the route declaration of /reduce documents).
handler_except_reduce_400(ep, origin, exc) ==
    IF exc = "ValueError"
    THEN [status |-> 400,
          detail |-> IF origin = "reduce" THEN "Dimensionality reduction failed"
                     ELSE IF ep = "tokenize" THEN "Failed to tokenize with model"
                     ELSE "Failed to load model"]
    ELSE [status |-> 500,
          detail |-> IF origin = "reduce" THEN "Dimensionality reduction failed"
                     ELSE IF ep = "tokenize" THEN "Error tokenizing text"
                     ELSE "Error processing text"]

\* A listing of the names the tokenizer cache holds.
list_tokenizer_cache == DOMAIN TOKENIZER_CACHE

\* ModelManager.list_models: list(self.model_cache.keys()).
list_models == DOMAIN model_cache

\* GET /models: the handler returns {"models": model_manager.list_models()}.
GetModels(i) ==
    /\ reqs[i].pc = "pending"
    /\ reqs[i].ep = "models"
    /\ MayRun(i)
    /\ reqs' = [reqs EXCEPT ![i].pc = "respond", ![i].listing = list_models]
    /\ running' = Yield(i, "respond")
    /\ UNCHANGED <<TOKENIZER_CACHE, MODEL_CACHE, model_cache, nextInst, loads, acquired>>
    /\ UNCHANGED <<call, main_model_cache, preq, session, logs>>

\* The except clauses of embeddings.py, attention.py, reduce.py and tokenize.py.
\* The first try block holds the whole ModelManager call (get_model and the
\* inference); `except ValueError` comes before `except Exception`.
handler_except(ep, origin, exc) ==
    IF origin = "reduce"
    THEN [status |-> 500, detail |-> "Dimensionality reduction failed"]
    ELSE IF exc = "ValueError"
    THEN [status |-> 400,
          detail |-> IF ep = "tokenize" THEN "Failed to tokenize with model"
                     ELSE "Failed to load model"]
    ELSE [status |-> 500,
          detail |-> IF ep = "tokenize" THEN "Error tokenizing text"
                     ELSE "Error processing text"]

\* An except clause that raises without a log record.
except_clause_silent(error_msg) ==
    << [op |-> "HTTPException", msg |-> error_msg] >>

\* The statements of every except clause of the handlers, in order:
\* logger.error(error_msg); raise HTTPException(status_code=..., detail=error_msg).
\* error_msg holds the model name (ValueError clauses) or str(e).
except_clause(error_msg) ==
    << [op |-> "logger.error", msg |-> error_msg],
       [op |-> "HTTPException", msg |-> error_msg] >>

\* A response dict with every result field, as the /process handler builds it.
response_keys_process(ep) ==
    IF ep = "models" THEN {"models"}
    ELSE {"tokens", "embeddings", "attention", "reduced_embeddings", "model_name"}

\* The keys of the response dict of each endpoint.
response_keys(ep) ==
    IF ep = "embeddings" THEN {"tokens", "embeddings", "model_name"}
    ELSE IF ep = "attention" THEN {"tokens", "attention", "model_name"}
    ELSE IF ep = "reduce" THEN {"tokens", "reduced_embeddings", "model_name"}
    ELSE IF ep = "models" THEN {"models"}
    ELSE {"tokens", "model_name"}

\* The handler builds its response dict, or the HTTPException of the except
\* clause that caught the failure.
Respond(i) ==
    /\ reqs[i].pc \in {"respond", "except"}
    /\ MayRun(i)
    /\ IF reqs[i].pc = "respond"
       THEN reqs' = [reqs EXCEPT ![i].pc = "done", ![i].status = 200,
                                 ![i].body = response_keys(reqs[i].ep),
                                 ![i].model_name =
                                     IF "model_name" \in response_keys(reqs[i].ep)
                                     THEN reqs[i].name ELSE ""]
       ELSE LET h == handler_except(reqs[i].ep, reqs[i].origin, reqs[i].exc) IN
            reqs' = [reqs EXCEPT ![i].pc = "done", ![i].status = h.status,
                                 ![i].detail = h.detail, ![i].body = {"detail"},
                                 ![i].events = except_clause(h.detail)]
    /\ running' = Yield(i, "done")
    /\ UNCHANGED <<TOKENIZER_CACHE, MODEL_CACHE, model_cache, nextInst, loads, acquired>>
    /\ UNCHANGED <<call, main_model_cache, preq, session, logs>>

\* The handler returns (or raises the HTTPException): its coroutine ends, its
\* locals are gone and the event loop is free to run another handler.
Finish(i) ==
    /\ reqs[i].pc = "done"
    /\ MayRun(i)
    /\ reqs' = [reqs EXCEPT ![i] = IdleRequest]
    /\ running' = 0
    /\ UNCHANGED <<TOKENIZER_CACHE, MODEL_CACHE, model_cache, nextInst, loads, acquired>>
    /\ UNCHANGED <<call, main_model_cache, preq, session, logs>>

NextApi ==
    \E i \in Slots :
        \/ Arrive(i)
        \/ EnterHandler(i)
        \/ TokenizeOnly(i)
        \/ GetModel(i)
        \/ LoadTokenizer(i)
        \/ LoadModel(i)
        \/ StoreService(i)
        \/ Infer(i)
        \/ Reduce(i)
        \/ GetModels(i)
        \/ Respond(i)
        \/ Finish(i)

\* ============================================================ main.py
\* The older application: one /process handler that returns tokens, embeddings
\* and attention, and reduced_embeddings when dimensionality_reduction is set.
\* Its handler is `async def` without an await expression, so handler bodies do
\* not interleave; preq is the request whose body is being run.
IdleProcess ==
    [pc |-> "idle", name |-> "gpt2", dimensionality_reduction |-> FALSE,
     method |-> "pca", n_components |-> 0, seq_len |-> 0, exc |-> "", origin |-> "",
     reduced |-> NoOutcome, status |-> 0, detail |-> "", reduced_embeddings |-> "unset"]

\* RequestData: dimensionality_reduction defaults to False; reduction_method and
\* n_components are read only when it is set.
ProcessRequests ==
    { [IdleProcess EXCEPT !.pc = "model", !.name = n] : n \in Names }
    \cup
    { [IdleProcess EXCEPT !.pc = "model", !.name = n, !.dimensionality_reduction = TRUE,
                          !.method = m, !.n_components = c]
        : n \in Names, m \in Methods, c \in Components }

\* model_service = ModelService("gpt2"); model_cache = {"gpt2": model_service}
InitMain ==
    /\ main_model_cache = {"gpt2"}
    /\ preq = IdleProcess

ProcessArrive ==
    /\ preq.pc = "idle"
    /\ preq' \in ProcessRequests
    /\ UNCHANGED main_model_cache
    /\ UNCHANGED apiVars /\ UNCHANGED call /\ UNCHANGED <<session, logs>>

\* "Get or initialize model": ModelService(model_name) on a miss; any exception
\* becomes a 400.
ProcessGetModel ==
    /\ preq.pc = "model"
    /\ IF preq.name \in main_model_cache
       THEN /\ preq' = [preq EXCEPT !.pc = "infer"]
            /\ UNCHANGED main_model_cache
       ELSE \/ /\ main_model_cache' = main_model_cache \cup {preq.name}
               /\ preq' = [preq EXCEPT !.pc = "infer"]
            \/ /\ \E e \in LoaderErrors :
                    preq' = [preq EXCEPT !.pc = "done", !.exc = e, !.origin = "load",
                                         !.status = 400, !.detail = "Failed to load model"]
               /\ UNCHANGED main_model_cache
    /\ UNCHANGED apiVars /\ UNCHANGED call /\ UNCHANGED <<session, logs>>

\* "Process text": any exception becomes a 500.
ProcessInfer ==
    /\ preq.pc = "infer"
    /\ \/ \E k \in SeqLens :
            preq' = [preq EXCEPT !.seq_len = k,
                                 !.pc = IF preq.dimensionality_reduction
                                        THEN "reduce" ELSE "respond",
                                 !.reduced_embeddings = "None"]
       \/ \E e \in InferenceErrors :
            preq' = [preq EXCEPT !.pc = "done", !.exc = e, !.origin = "infer",
                                 !.status = 500, !.detail = "Error processing text"]
    /\ UNCHANGED main_model_cache
    /\ UNCHANGED apiVars /\ UNCHANGED call /\ UNCHANGED <<session, logs>>

\* "Optional dimensionality reduction": reduced_embeddings = reduced.tolist(),
\* or stays None when service.dimensionality_reduction raises.
ProcessReduce ==
    /\ preq.pc = "reduce"
    /\ \E f \in Faults :
         LET out == dimensionality_reduction(preq.method, preq.n_components, preq.seq_len, f)
         IN preq' = [preq EXCEPT !.pc = "respond", !.reduced = out,
                                 !.reduced_embeddings =
                                     IF out.kind = "return" THEN "list" ELSE "None"]
    /\ UNCHANGED main_model_cache
    /\ UNCHANGED apiVars /\ UNCHANGED call /\ UNCHANGED <<session, logs>>

\* "Prepare response"
ProcessRespond ==
    /\ preq.pc = "respond"
    /\ preq' = [preq EXCEPT !.pc = "done", !.status = 200]
    /\ UNCHANGED main_model_cache
    /\ UNCHANGED apiVars /\ UNCHANGED call /\ UNCHANGED <<session, logs>>

ProcessFinish ==
    /\ preq.pc = "done"
    /\ preq' = IdleProcess
    /\ UNCHANGED main_model_cache
    /\ UNCHANGED apiVars /\ UNCHANGED call /\ UNCHANGED <<session, logs>>

NextMain ==
    \/ ProcessArrive
    \/ ProcessGetModel
    \/ ProcessInfer
    \/ ProcessReduce
    \/ ProcessRespond
    \/ ProcessFinish

\* ================================================= SpecInfer: one handle
\* The dropout masks a forward pass can draw when the model is in training
\* mode.
Dropout == {0, 1}

\* A model left in training mode.
training_mode == "train"

\* _MODEL_CACHE[model_name].eval(): the mode of every model the service holds.
model_mode == "eval"

\* with torch.no_grad(): outputs = self.model(**inputs, output_attentions=True).
\* The hidden states are a function of the model object and of input_ids; the
\* dropout mask enters only when the model is in training mode.
forward(model, mode, input_ids, mask) ==
    [model |-> model, input_ids |-> input_ids,
     mask |-> IF mode = "eval" THEN 0 ELSE mask]

\* tokenize_text with the tokenizer's default add_special_tokens.
tokenize_text_with_special(name, text) == tokenizer(name, text, TRUE)

\* ModelService.tokenize_text(text): the tokenizer is called with
\* add_special_tokens=False.
tokenize_text(name, text) == tokenizer(name, text, FALSE)

NoSession == [service |-> NoService, mode |-> "", log |-> <<>>]

\* ModelService(name) has been constructed in a fresh process: both loads ran
\* and filled the two global caches; no ModelManager is involved.
InitInfer ==
    \E n \in Names :
        /\ TOKENIZER_CACHE = Put(<<>>, n, 1)
        /\ MODEL_CACHE = Put(<<>>, n, 2)
        /\ nextInst = 3
        /\ loads = [m \in Names |-> IF m = n THEN [tokenizer |-> 1, model |-> 1]
                                    ELSE [tokenizer |-> 0, model |-> 0]]
        /\ model_cache = <<>>
        /\ acquired = <<>>
        /\ reqs = [i \in Slots |-> IdleRequest]
        /\ running = 0
        /\ session = [service |-> [model_name |-> n, tokenizer |-> 1, model |-> 2],
                      mode |-> model_mode, log |-> <<>>]

\* service.get_embeddings_and_attention(text): it returns, or the tokenizer or
\* the forward pass raises.
CallInfer ==
    /\ Len(session.log) < MaxCalls
    /\ \E k \in SeqLens, mask \in Dropout :
         LET out == get_embeddings_and_attention(session.service.model_name, k)
             hidden == forward(session.service.model, session.mode, out.rows, mask)
         IN \/ session' = [session EXCEPT !.log = Append(@,
                   [fn |-> "infer", text |-> k, raised |-> FALSE,
                    tokens |-> out.token_strings, hidden |-> hidden])]
            \/ session' = [session EXCEPT !.log = Append(@,
                   [fn |-> "infer", text |-> k, raised |-> TRUE,
                    tokens |-> <<>>, hidden |-> forward(0, "eval", 0, 0)])]
    /\ UNCHANGED apiVars /\ UNCHANGED <<call, main_model_cache, preq, logs>>

\* A tokenize_text that loads the tokenizer again and swaps it in.
CallTokenizeReloading ==
    /\ Len(session.log) < MaxCalls
    /\ \E k \in SeqLens :
         session' = [session EXCEPT
             !.service.tokenizer = nextInst,
             !.log = Append(@,
                 [fn |-> "tokenize", text |-> k, raised |-> FALSE,
                  tokens |-> tokenize_text(session.service.model_name, k),
                  hidden |-> forward(0, "eval", 0, 0)])]
    /\ TOKENIZER_CACHE' = Put(TOKENIZER_CACHE, session.service.model_name, nextInst)
    /\ nextInst' = nextInst + 1
    /\ UNCHANGED <<MODEL_CACHE, model_cache, reqs, running, loads, acquired>>
    /\ UNCHANGED <<call, main_model_cache, preq, logs>>

\* service.tokenize_text(text)
CallTokenize ==
    /\ Len(session.log) < MaxCalls
    /\ \E k \in SeqLens :
         session' = [session EXCEPT !.log = Append(@,
             [fn |-> "tokenize", text |-> k, raised |-> FALSE,
              tokens |-> tokenize_text(session.service.model_name, k),
              hidden |-> forward(0, "eval", 0, 0)])]
    /\ UNCHANGED apiVars /\ UNCHANGED <<call, main_model_cache, preq, logs>>

NextInfer == CallInfer \/ CallTokenize

\* ==================================================== SpecLogs: GET /logs
\* The handlers of GET /logs: get_logs (api/endpoints/logs.py) and view_logs
\* (main.py and routes.py, the same body).
LogHandlers == {"get_logs", "view_logs"}

\* The values of the query parameter `lines` a client may send.
LinesParams == (0 - 1)..(MaxLines + 1)

\* The values a handler accepts: get_logs declares Query(100, ge=1, le=1000),
\* view_logs declares a plain int.
accepts(handler, lines) ==
    IF handler = "get_logs" THEN lines >= 1 /\ lines <= 1000 ELSE TRUE

\* log_lines[start:] for a start index as Python reads it: a negative start
\* counts from the end, and -0 is 0.
slice_from(log_lines, start) ==
    LET n == Len(log_lines)
        from == IF start < 0
                THEN (IF n + start < 0 THEN 0 ELSE n + start)
                ELSE (IF start > n THEN n ELSE start)
    IN SubSeq(log_lines, from + 1, n)

\* log_lines[-lines:] if len(log_lines) > lines else log_lines
tail(log_lines, lines) ==
    IF Len(log_lines) > lines THEN slice_from(log_lines, 0 - lines) ELSE log_lines

\* The "logs" field of a response: lines of the file, or a message.
LogLines(log_lines) == [message |-> "", log_lines |-> log_lines]
LogMessage(message) == [message |-> message, log_lines |-> <<>>]

IdleLogs(exists, file) ==
    [exists |-> exists, file |-> file, phase |-> "idle", handler |-> "get_logs",
     lines |-> 1, response |-> LogLines(<<>>)]

\* The log file is logs/api.log; its lines are numbered in the order written.
InitLogs == \E e \in BOOLEAN : logs = IdleLogs(e, <<>>)

\* The file handler of the logger appends a line, creating the file if needed.
WriteLog ==
    /\ Len(logs.file) < MaxLines
    /\ logs' = [logs EXCEPT !.exists = TRUE, !.file = Append(@, Len(@) + 1)]
    /\ UNCHANGED apiVars /\ UNCHANGED <<call, main_model_cache, preq, session>>

\* GET /logs?lines=n reaches a handler that accepts n.
RequestLogs ==
    /\ logs.phase = "idle"
    /\ \E h \in LogHandlers, n \in LinesParams :
         /\ accepts(h, n)
         /\ logs' = [logs EXCEPT !.phase = "called", !.handler = h, !.lines = n]
    /\ UNCHANGED apiVars /\ UNCHANGED <<call, main_model_cache, preq, session>>

\* The handler body: the existence test, the read and the slice, or the
\* message of the except clause when the read raises.
ViewLogs ==
    /\ logs.phase = "called"
    /\ \/ logs' = [logs EXCEPT !.phase = "returned",
                                !.response = IF logs.exists
                                             THEN LogLines(tail(logs.file, logs.lines))
                                             ELSE LogMessage("No log file found")]
       \/ /\ logs.exists
          /\ logs' = [logs EXCEPT !.phase = "returned",
                                   !.response = LogMessage("Error reading log file")]
    /\ UNCHANGED apiVars /\ UNCHANGED <<call, main_model_cache, preq, session>>

\* The response has been sent.
LogsDone ==
    /\ logs.phase = "returned"
    /\ logs' = IdleLogs(logs.exists, logs.file)
    /\ UNCHANGED apiVars /\ UNCHANGED <<call, main_model_cache, preq, session>>

NextLogs == WriteLog \/ RequestLogs \/ ViewLogs \/ LogsDone

\* ===================================================== the specifications
\* No reduce call of SpecReduce is in progress.
NoCall ==
    [phase |-> "unused", method |-> "pca", n_components |-> 0, seq_len |-> 0,
     fault |-> "none", out |-> NoOutcome, projected |-> <<>>, values |-> <<>>,
     fitted |-> <<>>, reused |-> FALSE]

\* No GET /logs request is modelled.
NoLogs == [exists |-> FALSE, file |-> <<>>, phase |-> "unused", handler |-> "get_logs",
           lines |-> 1, response |-> LogLines(<<>>)]

Init == InitApi /\ call = NoCall /\ InitMain /\ session = NoSession /\ logs = NoLogs

Next == NextApi

Spec == Init /\ [][Next]_vars

NextReduce == CallReduce \/ NextCall \/ NewCall \/ KeepReducer \/ NextMatrix

InitR == InitApi /\ InitReduce /\ InitMain /\ session = NoSession /\ logs = NoLogs

SpecReduce == InitR /\ [][NextReduce]_vars

SpecMain == Init /\ [][NextMain]_vars

InitI == InitInfer /\ call = NoCall /\ InitMain /\ logs = NoLogs

SpecInfer == InitI /\ [][NextInfer]_vars

InitL == InitApi /\ call = NoCall /\ InitMain /\ session = NoSession /\ InitLogs

SpecLogs == InitL /\ [][NextLogs]_vars

\* ================================================================ claims
\* Program points of a handler at which get_model has returned a ModelService.
HoldsService(r) ==
    \/ r.pc \in {"infer", "reduce", "respond"} /\ r.ep # "models"
    \/ /\ r.pc \in {"except", "done"} /\ r.origin \in {"infer", "reduce", ""}
       /\ r.ep \notin {"tokenize", "models"}

LoadFailed(r) == r.origin \in {"load_tokenizer", "load_model"}

\* C1: a request whose get_model starts after an earlier get_model of the same
\* name has returned invokes no loader, and the ModelService it obtains holds
\* the very tokenizer and model instances the first call returned.
C1_SecondAcquireReuses ==
    \A i \in Slots :
        reqs[i].hadPrior =>
            /\ reqs[i].invoked = {}
            /\ ~LoadFailed(reqs[i])
            /\ HoldsService(reqs[i]) => reqs[i].service = reqs[i].prior

C1_Witness ==
    \E i \in Slots :
        /\ reqs[i].hadPrior
        /\ reqs[i].pc = "infer"
        /\ reqs[i].service.tokenizer # 0
        /\ reqs[i].service.model # 0

\* C2: requests whose first use of one uncached name overlaps never run the
\* check-cache / load-if-absent / store section at the same time, and the
\* loader produces at most one tokenizer and at most one model per name.
AcquireSection == {"get_model", "load_tokenizer", "load_model", "store"}

C3_OneHandlePerName ==
    /\ \A n \in DOMAIN model_cache :
          /\ n \in DOMAIN acquired
          /\ model_cache[n] = acquired[n]
          /\ n \in DOMAIN TOKENIZER_CACHE /\ TOKENIZER_CACHE[n] = model_cache[n].tokenizer
          /\ n \in DOMAIN MODEL_CACHE /\ MODEL_CACHE[n] = model_cache[n].model
    /\ \A i \in Slots :
          HoldsService(reqs[i]) =>
              /\ reqs[i].name \in DOMAIN acquired
              /\ reqs[i].service = acquired[reqs[i].name]

C3_Witness ==
    \E i \in Slots :
        /\ reqs[i].pc = "done"
        /\ reqs[i].status = 200
        /\ reqs[i].hadPrior
        /\ reqs[i].service = model_cache[reqs[i].name]
        /\ \E j \in Slots : j # i /\ reqs[j].pc = "pending" /\ reqs[j].name = reqs[i].name

\* C4 (as claimed): once the loader has failed for a name, no cache holds an
\* entry for that name.
C4_NothingCachedAfterFailure ==
    \A i \in Slots :
        (reqs[i].pc \in {"except", "done"} /\ LoadFailed(reqs[i])) =>
            /\ reqs[i].name \notin DOMAIN TOKENIZER_CACHE
            /\ reqs[i].name \notin DOMAIN MODEL_CACHE
            /\ reqs[i].name \notin DOMAIN model_cache

\* C5 (as claimed): a request whose model load failed is answered with 400 and
\* a detail message.
C5_LoadFailureIs400 ==
    \A i \in Slots :
        (reqs[i].pc = "done" /\ LoadFailed(reqs[i])) =>
            /\ reqs[i].status = 400
            /\ "detail" \in reqs[i].body

\* C6 (as claimed): a request whose model was loaded and whose tokenization or
\* forward pass failed is answered with 500, never with the 400 / "Failed to
\* load model" of a load failure.
C6_InferenceFailureIs500 ==
    \A i \in Slots :
        (reqs[i].pc = "done" /\ reqs[i].origin = "infer") =>
            /\ reqs[i].status = 500
            /\ reqs[i].detail # "Failed to load model"

\* C7: reduce on a matrix with seq_len < n_components raises the "Cannot reduce"
\* error for every method, with no numerical stage run, and returns nothing.
C7_TooFewRowsAlwaysRaises ==
    (call.phase = "returned" /\ call.seq_len < call.n_components) =>
        /\ call.out.kind = "raise"
        /\ call.out.msg = "Cannot reduce"
        /\ call.out.stages = <<>>

C7_Witness ==
    /\ call.phase = "returned"
    /\ call.seq_len < call.n_components
    /\ call.method = "tsne"
    /\ call.out.msg = "Cannot reduce"

C9_ChecksBeforeAnyStage ==
    (/\ call.phase = "returned"
     /\ call.out.kind = "raise"
     /\ call.out.msg \in {"Cannot reduce", "Unsupported dimensionality reduction method"})
        => call.out.stages = <<>>

\* C10 (as claimed): a /process request whose projection or rescaling failed
\* never answers with a reduced matrix presented as a normal result.
C10_NoFabricatedReduction ==
    (/\ preq.pc = "done"
     /\ preq.status = 200
     /\ preq.reduced.stages # <<>>
     /\ preq.reduced.zeros)
        => preq.reduced_embeddings # "list"

C12_FailedReductionGivesNull ==
    (/\ preq.pc = "done"
     /\ preq.dimensionality_reduction
     /\ preq.origin = ""
     /\ (preq.reduced.kind = "raise" \/ preq.reduced.zeros))
        => /\ preq.status = 200
           /\ preq.reduced_embeddings = "None"

\* The result field of each endpoint that returns inference results.
ResultField(ep) ==
    IF ep = "embeddings" THEN "embeddings"
    ELSE IF ep = "attention" THEN "attention"
    ELSE "reduced_embeddings"

\* C13: every successful response of the embeddings, attention and reduce
\* endpoints holds the tokens, the model name the request named, and exactly one
\* of embeddings / attention / reduced_embeddings: the one of its endpoint.
C13_SuccessPayload ==
    \A i \in Slots :
        (/\ reqs[i].pc = "done" /\ reqs[i].status = 200
         /\ reqs[i].ep \in {"embeddings", "attention", "reduce"})
            => /\ "tokens" \in reqs[i].body
               /\ "model_name" \in reqs[i].body
               /\ reqs[i].model_name = reqs[i].name
               /\ reqs[i].body \cap {"embeddings", "attention", "reduced_embeddings"}
                      = {ResultField(reqs[i].ep)}

C13_Witness ==
    \E i \in Slots :
        /\ reqs[i].pc = "done" /\ reqs[i].status = 200
        /\ reqs[i].ep = "reduce" /\ reqs[i].name = "bert"
        /\ reqs[i].body = {"tokens", "reduced_embeddings", "model_name"}
        /\ reqs[i].model_name = "bert"

\* Program points of a handler at which get_embeddings_and_attention has
\* returned.
HoldsInference(r) ==
    /\ r.ep \in {"embeddings", "attention", "reduce"}
    /\ \/ r.pc \in {"reduce", "respond"}
       \/ r.pc \in {"except", "done"} /\ r.origin \in {"reduce", ""}

\* C14: after every successful inference the number of tokens equals the
\* number of rows of the hidden-state matrix and the number of rows and of
\* columns of every attention matrix; after a successful reduction the number
\* of reduced rows equals the number of tokens.
C14_SizesAgree ==
    \A i \in Slots :
        HoldsInference(reqs[i]) =>
            /\ reqs[i].tokens = reqs[i].seq_len
            /\ reqs[i].tokens = reqs[i].att_rows
            /\ reqs[i].tokens = reqs[i].att_cols
            /\ reqs[i].reduced.kind = "return" => reqs[i].reduced.rows = reqs[i].tokens

C14_Witness ==
    \E i \in Slots :
        /\ reqs[i].pc = "done" /\ reqs[i].status = 200 /\ reqs[i].ep = "reduce"
        /\ reqs[i].name = "bert" /\ reqs[i].text = 1
        /\ reqs[i].tokens = 3 /\ reqs[i].seq_len = 3
        /\ reqs[i].reduced.kind = "return" /\ reqs[i].reduced.rows = 3

\* C15: every reduce call that returns, made with method pca or umap on a
\* matrix of seq_len rows, returns seq_len rows and n_components columns, and
\* every entry of the result lies between -1 and 1.
C15_ShapeAndRange ==
    (call.phase = "returned" /\ call.out.kind = "return" /\ call.method \in {"pca", "umap"})
        => /\ call.out.rows = call.seq_len
           /\ call.out.cols = call.n_components
           /\ Len(call.values) = call.seq_len
           /\ \A k \in DOMAIN call.values :
                  /\ call.values[k].den > 0
                  /\ 0 - call.values[k].den <= call.values[k].num
                  /\ call.values[k].num <= call.values[k].den

C15_Witness ==
    /\ call.phase = "returned" /\ call.out.kind = "return" /\ call.method = "umap"
    /\ call.seq_len = 2 /\ call.n_components = 2
    /\ call.projected = <<MaxVal, 0 - MaxVal>>
    /\ call.values[1].num = call.values[1].den
    /\ call.values[2].num = 0 - call.values[2].den

\* C16 (as claimed): a request with the empty text is never an error: on a
\* model that loads, tokenize answers 200 with an empty token list, and
\* embeddings and attention answer 200 with an empty token sequence.
C16_EmptyTextSucceeds ==
    \A i \in Slots :
        (/\ reqs[i].pc = "done" /\ reqs[i].text = 0
         /\ reqs[i].ep \in {"tokenize", "embeddings", "attention"}
         /\ ~LoadFailed(reqs[i]))
            => /\ reqs[i].status = 200
               /\ "tokens" \in reqs[i].body
               /\ reqs[i].tokens = 0

\* C17 (as claimed): a POST /tokenize request with a text and a model name that
\* loads is handled by the tokenize handler and answered 200 with the token
\* list and the model name of the request.
C17_TokenizeAnswers200 ==
    \A i \in Slots :
        (reqs[i].pc = "done" /\ reqs[i].ep = "tokenize" /\ ~LoadFailed(reqs[i]))
            => /\ reqs[i].status = 200
               /\ reqs[i].body = {"tokens", "model_name"}
               /\ reqs[i].model_name = reqs[i].name

\* C18: GET /models returns exactly the names the manager's cache holds; a name
\* is listed if and only if a load of it has succeeded (get_model has returned
\* a ModelService for it), so a name whose loads all failed, or that was never
\* requested, is not listed.
C18_ListIsCache ==
    \A i \in Slots :
        (reqs[i].ep = "models" /\ reqs[i].pc \in {"respond", "done"})
            => /\ reqs[i].listing = DOMAIN model_cache
               /\ reqs[i].listing = DOMAIN acquired
               /\ \A n \in reqs[i].listing :
                      loads[n].tokenizer > 0 /\ loads[n].model > 0

C18_Witness ==
    \E i \in Slots :
        /\ reqs[i].ep = "models" /\ reqs[i].pc = "done" /\ reqs[i].status = 200
        /\ reqs[i].body = {"models"}
        /\ reqs[i].listing = {"gpt2"}
        /\ "bert" \in DOMAIN TOKENIZER_CACHE
        /\ "bert" \notin DOMAIN MODEL_CACHE

\* Every key of the cache is a key of its next value, with the same value.
Kept(cache, next) ==
    \A n \in DOMAIN cache : n \in DOMAIN next /\ next[n] = cache[n]

\* C19: the caches only grow: a name that is cached stays cached in every
\* later state, and the object cached under it is never replaced or removed.
C19_CacheOnlyGrows ==
    [][/\ Kept(model_cache, model_cache')
       /\ Kept(TOKENIZER_CACHE, TOKENIZER_CACHE')
       /\ Kept(MODEL_CACHE, MODEL_CACHE')]_vars

C19_Witness ==
    \E i \in Slots :
        /\ reqs[i].hadPrior /\ reqs[i].pc = "infer"
        /\ reqs[i].name \in DOMAIN model_cache
        /\ model_cache[reqs[i].name] = reqs[i].prior
        /\ TOKENIZER_CACHE[reqs[i].name] = reqs[i].prior.tokenizer
        /\ MODEL_CACHE[reqs[i].name] = reqs[i].prior.model
        /\ \E j \in Slots : j # i /\ reqs[j].pc = "pending" /\ reqs[j].ep = "models"

C21_LoggedBeforeError ==
    \A i \in Slots :
        (reqs[i].pc = "done" /\ reqs[i].status >= 400) =>
            /\ \E k \in DOMAIN reqs[i].events : reqs[i].events[k].op = "HTTPException"
            /\ \A k \in DOMAIN reqs[i].events :
                   reqs[i].events[k].op = "HTTPException" =>
                       \E j \in 1..(k - 1) :
                           /\ reqs[i].events[j].op = "logger.error"
                           /\ reqs[i].events[j].msg = reqs[i].detail
                           /\ reqs[i].events[j].msg # ""

C21_Witness ==
    \E i \in Slots :
        /\ reqs[i].pc = "done" /\ reqs[i].status = 400
        /\ reqs[i].origin = "load_model"
        /\ Len(reqs[i].events) = 2
        /\ reqs[i].events[1].op = "logger.error"
        /\ reqs[i].events[2].op = "HTTPException"

\* C22: no request retries a failed step: within one request each loader, the
\* forward pass and the reduction are called at most once, and the first
\* failure of a step ends the request (no later step is called).
C22_NoRetry ==
    \A i \in Slots :
        /\ \A s \in DOMAIN reqs[i].attempts : reqs[i].attempts[s] <= 1
        /\ reqs[i].origin # "" =>
               /\ reqs[i].pc \in {"except", "done"}
               /\ reqs[i].origin = "load_tokenizer" =>
                      /\ reqs[i].attempts.model = 0
                      /\ reqs[i].attempts.forward = 0
                      /\ reqs[i].attempts.reduce = 0
               /\ reqs[i].origin = "load_model" =>
                      reqs[i].attempts.forward = 0 /\ reqs[i].attempts.reduce = 0
               /\ reqs[i].origin = "infer" => reqs[i].attempts.reduce = 0

C22_Witness ==
    \E i \in Slots :
        /\ reqs[i].pc = "done" /\ reqs[i].ep = "reduce" /\ reqs[i].origin = "infer"
        /\ reqs[i].attempts = [tokenizer |-> 1, model |-> 1, forward |-> 1, reduce |-> 0]
        /\ reqs[i].status = 500

\* C23 (as claimed): on a freshly started service, before any request has
\* loaded a model, the list GET /models returns contains "gpt2".
C23_FreshListHasGpt2 ==
    \A i \in Slots :
        (/\ reqs[i].ep = "models" /\ reqs[i].pc = "done"
         /\ \A n \in Names : loads[n].tokenizer = 0 /\ loads[n].model = 0)
            => "gpt2" \in reqs[i].listing

\* C24 (as claimed): in a reduce request the steps run in the order acquire,
\* infer, reduce, each only after the earlier ones succeeded: when the model
\* load fails neither the inference nor the reducer runs, and the request is
\* answered with the model-load error, status 400, whatever its reduction
\* method is (the method is not read before the reducer is built).
C24_LoadFailureWinsWith400 ==
    \A i \in Slots :
        (reqs[i].pc = "done" /\ reqs[i].ep = "reduce" /\ LoadFailed(reqs[i]))
            => /\ reqs[i].attempts.forward = 0
               /\ reqs[i].attempts.reduce = 0
               /\ reqs[i].reduced = NoOutcome
               /\ reqs[i].status = 400
               /\ reqs[i].detail = "Failed to load model"

\* The special tokens of the tokenizers.
SpecialStrings == UNION { {special_tokens(n)[k] : k \in DOMAIN special_tokens(n)} : n \in Names }

\* C25: tokenize_text never returns a special token, while the tokens
\* get_embeddings_and_attention returns are the text's tokens between the
\* tokenizer's special tokens: the sequence that went through the forward pass.
C25_SpecialTokens ==
    \A a \in DOMAIN session.log :
        LET c == session.log[a]
            special == special_tokens(session.service.model_name)
        IN /\ c.fn = "tokenize" =>
                  /\ Len(c.tokens) = c.text
                  /\ \A k \in DOMAIN c.tokens : c.tokens[k] \notin SpecialStrings
           /\ (c.fn = "infer" /\ ~c.raised) =>
                  /\ Len(c.tokens) = c.text + Len(special)
                  /\ Len(c.tokens) = c.hidden.input_ids
                  /\ \A k \in DOMAIN special : \E j \in DOMAIN c.tokens : c.tokens[j] = special[k]

C25_Witness ==
    /\ session.service.model_name = "bert"
    /\ Len(session.log) = 2
    /\ session.log[1].fn = "tokenize" /\ session.log[1].tokens = <<"w">>
    /\ session.log[2].fn = "infer" /\ session.log[2].tokens = <<"[CLS]", "w", "[SEP]">>

\* C26: reduce never raises the insufficient-samples error when seq_len >=
\* n_components; the boundary seq_len = n_components passes the row-count test.
C26_EnoughRowsPassTheTest ==
    (call.phase = "returned" /\ call.seq_len >= call.n_components)
        => ~(call.out.kind = "raise" /\ call.out.msg = "Cannot reduce")

C26_Witness ==
    /\ call.phase = "returned"
    /\ call.seq_len = 2 /\ call.n_components = 2
    /\ call.method = "pca" /\ call.fault = "none"
    /\ call.out.kind = "return" /\ call.out.rows = 2 /\ call.out.cols = 2

\* C27: a reduce call leaves the reducer's method and n_components and its
\* input unchanged and stores nothing on the reducer, whether it returns or
\* raises; its outcome is the outcome of the same call on a new reducer,
\* whatever calls were made on the reducer before.
C27_ReducerStateless ==
    [][(call.phase = "ready" /\ call'.phase = "returned") =>
          /\ call'.method = call.method
          /\ call'.n_components = call.n_components
          /\ call'.seq_len = call.seq_len
          /\ call'.projected = call.projected
          /\ call'.fitted = call.fitted
          /\ call'.fitted = <<>>
          /\ call'.out = reduce(call.method, call.n_components, call.seq_len, call.fault)
          /\ call'.out.kind = "return" => call'.values = min_max_scale(call.projected)]_vars

C27_Witness ==
    /\ call.phase = "returned" /\ call.reused
    /\ call.out.kind = "return" /\ call.method = "pca"
    /\ call.seq_len = 2 /\ call.projected = <<1, 0>>
    /\ call.fitted = <<>>

\* C28: a call of get_embeddings_and_attention or of tokenize_text on a
\* ModelService, whether it returns or raises, changes neither
\* _TOKENIZER_CACHE, _MODEL_CACHE, ModelManager.model_cache nor the
\* ModelService itself.
C28_InferenceReadOnly ==
    [][session.log # session'.log =>
          /\ TOKENIZER_CACHE' = TOKENIZER_CACHE
          /\ MODEL_CACHE' = MODEL_CACHE
          /\ model_cache' = model_cache
          /\ session'.service = session.service
          /\ session'.mode = session.mode]_vars

C28_Witness ==
    /\ Len(session.log) = 3
    /\ session.log[1].fn = "infer" /\ session.log[1].raised
    /\ session.log[2].fn = "tokenize"
    /\ session.log[3].fn = "infer" /\ ~session.log[3].raised
    /\ TOKENIZER_CACHE[session.service.model_name] = session.service.tokenizer
    /\ MODEL_CACHE[session.service.model_name] = session.service.model

\* C29 (as claimed): GET /logs with lines = n returns the last n lines of the
\* log file when the file has more than n lines and the whole file otherwise,
\* and for every n its handler accepts (taken here as a count, n >= 0) the
\* response has at most n lines.
C29_TailOfLog ==
    (/\ logs.phase = "returned" /\ logs.exists /\ logs.lines >= 0
     /\ logs.response.message = "")
        => LET returned == logs.response.log_lines IN
           /\ Len(returned) <= logs.lines
           /\ Len(logs.file) <= logs.lines => returned = logs.file
           /\ Len(logs.file) > logs.lines =>
                  /\ Len(returned) = logs.lines
                  /\ \A k \in DOMAIN returned :
                         returned[k] = logs.file[Len(logs.file) - Len(returned) + k]

\* C30: in every reachable state the cache layers agree: every name in
\* _MODEL_CACHE is in _TOKENIZER_CACHE, every name in ModelManager.model_cache
\* is in both, and the ModelService stored under a name carries that name and
\* the tokenizer and model cached under it.
C30_CacheLayersConsistent ==
    /\ DOMAIN MODEL_CACHE \subseteq DOMAIN TOKENIZER_CACHE
    /\ DOMAIN model_cache \subseteq DOMAIN MODEL_CACHE
    /\ \A n \in DOMAIN model_cache :
           /\ model_cache[n].model_name = n
           /\ model_cache[n].tokenizer = TOKENIZER_CACHE[n]
           /\ model_cache[n].model = MODEL_CACHE[n]

C30_Witness ==
    /\ DOMAIN model_cache = {"bert"}
    /\ DOMAIN MODEL_CACHE = {"bert"}
    /\ DOMAIN TOKENIZER_CACHE = {"bert", "gpt2"}
    /\ model_cache["bert"].tokenizer = TOKENIZER_CACHE["bert"]
    /\ \E i \in Slots : reqs[i].pc = "done" /\ reqs[i].origin = "load_model"
                          /\ reqs[i].name = "gpt2"

====
